---------------------------- MODULE Spec2Model ----------------------------
(***************************************************************************)
(* A model of the single layer perceptron of 02_perceptron.py: the class   *)
(* Perceptron (constructor, fit, net_input, predict) and a caller that     *)
(* calls its methods one after the other.                                  *)
(*                                                                         *)
(* Real numbers are fixed-point integers: eta, the weights and the net     *)
(* input are counted in units of 1/Unit (10^-5), the features and the      *)
(* labels are whole numbers, so every sum and product of the code is the   *)
(* exact integer sum and product here.  Floating-point rounding is not     *)
(* modelled.                                                               *)
(***************************************************************************)
EXTENDS Integers, Sequences, FiniteSets, TLC

VARIABLES eta, n_epoch, has_w, w, n_misclass,
          pc, X, y, epoch, idx, misclass, result, refit

vars == <<eta, n_epoch, has_w, w, n_misclass,
          pc, X, y, epoch, idx, misclass, result, refit>>

(* ----------------------- bounds and input values ----------------------- *)

\* The largest number of rows of a feature matrix and of entries of a label vector.
MaxSamples == 2

\* The largest number of epochs a classifier is constructed with.
MaxEpoch == 8

\* Feature widths of the arrays handed to fit, net_input and predict.
Widths == {1, 2}

\* Values a feature takes.
FeatureValues == {0, 1}

\* The two class labels, and label vectors holding a value outside them.
LabelValues == {-1, 1}

OutOfRangeLabelVectors == {<<0>>, <<1, 0>>, <<2, -1>>}

\* Learning rates, in units of 10^-5: 0.0, 0.00812 (half the initial bias,
\* which one update brings to exactly zero) and 0.1 (the script's).
EtaValues == {0, 812, 10000}

\* Epoch counts a classifier is constructed with.
EpochValues == {0, 1, 2, MaxEpoch}

(* ------------------------------ arrays -------------------------------- *)

\* A numpy array: its shape, its element type and its data (a vector of
\* numbers when 1-D, a sequence of rows when 2-D or ragged).
Vectors(F) == [1..F -> FeatureValues]

\* One sample: a 1-D array of F features.
Samples == UNION { { [shape |-> <<F>>, dtype |-> "float", data |-> v] :
                     v \in Vectors(F) } : F \in Widths }

\* A batch of n samples: a 2-D array of shape (n, F).
MatricesOf(n, F) == { [shape |-> <<n, F>>, dtype |-> "float", data |-> r] :
                      r \in [1..n -> Vectors(F)] }

Matrices == UNION { MatricesOf(n, F) : n \in 0..MaxSamples, F \in Widths }

\* Rows of unequal width make a 1-D array of objects.
RaggedArrays == { [shape |-> <<2>>, dtype |-> "object",
                   data |-> << <<0>>, <<0, 1>> >>] }

LabelVectors == UNION { [1..m -> LabelValues] : m \in 0..MaxSamples }
                \cup OutOfRangeLabelVectors

\* What fit is called with: a feature array and a label vector of as many
\* labels as the array has rows, or of one label whatever the rows.
FitInputs == { in \in (Matrices \cup RaggedArrays) \X LabelVectors :
               Len(in[2]) = in[1].shape[1] \/ Len(in[2]) = 1 }

\* The rows of A: the sample itself when A is one sample.
RowsOf(A) == IF Len(A.shape) = 1 THEN <<A.data>> ELSE A.data

None == [op |-> "none", kind |-> "none", value |-> <<>>]

NoArray == [shape |-> <<>>, dtype |-> "none", data |-> <<>>]

(* ------------------------- the pure functions ------------------------- *)

\* np.random.RandomState(seed=1).normal(loc=0.0, scale=0.01, size=...):
\* the first draws of the stream, 0.01624345, -0.00611756, -0.00528172,
\* in units of 10^-5.
rgen_normal(size) == SubSeq(<<1624, -612, -528>>, 1, size)

RECURSIVE dot(_, _)
dot(a, b) == IF Len(a) = 0 THEN 0
             ELSE a[1] * b[1] + dot(Tail(a), Tail(b))

\* self.w[0] + np.dot(Xi, self.w[1:]) for one row Xi of the weights' width.
net_input_row(wv, x) == wv[1] + dot(x, Tail(wv))

\* unit_step with a strict threshold: a net input of 0 goes to -1.
unit_step_strict(z) == IF z > 0 THEN 1 ELSE -1

\* np.where(z >= 0, 1, -1)
unit_step(z) == IF z >= 0 THEN 1 ELSE -1

predict_row(wv, x) == unit_step(net_input_row(wv, x))

\* np_dot without the check of the shapes: a mismatch yields zeros.
np_dot_lenient(A, v) ==
    [kind |-> "ok",
     value |-> [r \in 1..Len(RowsOf(A)) |->
                   IF A.shape[Len(A.shape)] = Len(v)
                   THEN dot(RowsOf(A)[r], v) ELSE 0]]

\* np.dot(A, v) for a 1-D sample or a 2-D batch A and a vector v: numpy
\* raises ValueError when the last dimension of A is not the length of v.
\* The value holds one number per sample.
np_dot(A, v) ==
    IF A.shape[Len(A.shape)] # Len(v)
    THEN [kind |-> "ValueError", value |-> <<>>]
    ELSE [kind |-> "ok",
          value |-> [r \in 1..Len(RowsOf(A)) |-> dot(RowsOf(A)[r], v)]]

\* net_input that takes unset weights for zeros instead of failing.
net_input_zero_weights(A) ==
    LET wv == IF has_w THEN w ELSE [j \in 1..(1 + A.shape[Len(A.shape)]) |-> 0]
        d  == np_dot(A, Tail(wv))
    IN  IF d.kind # "ok" THEN d
        ELSE [kind |-> "ok",
              value |-> [r \in 1..Len(d.value) |-> wv[1] + d.value[r]]]

\* Perceptron.net_input: self.w is read first, and is no attribute of a
\* classifier that fit has not reached yet.
net_input(A) ==
    IF ~has_w
    THEN [kind |-> "AttributeError", value |-> <<>>]
    ELSE LET d == np_dot(A, Tail(w))
         IN  IF d.kind # "ok" THEN d
             ELSE [kind |-> "ok",
                   value |-> [r \in 1..Len(d.value) |-> w[1] + d.value[r]]]

\* Perceptron.predict: np.where(self.net_input(X) >= 0, 1, -1)
predict(A) ==
    LET z == net_input(A)
    IN  IF z.kind # "ok" THEN z
        ELSE [kind |-> "ok",
              value |-> [r \in 1..Len(z.value) |-> unit_step(z.value[r])]]

\* zip(X, y) stops with the shorter of the two.
ZipLen(A, lab) == IF A.shape[1] < Len(lab) THEN A.shape[1] ELSE Len(lab)

\* The update with the two labels exchanged.
UpdateReversed(wv, xi, yi) == eta * (predict_row(wv, xi) - yi)

\* update = self.eta * (yi - self.predict(Xi))
Update(wv, xi, yi) == eta * (yi - predict_row(wv, xi))

\* The update added to every weight as it is, not times the feature.
UpdatedWeightsNoFeature(wv, xi, update) ==
    [j \in 1..Len(wv) |-> wv[j] + update]

\* self.w[0] += update ; self.w[1:] += update * Xi
UpdatedWeights(wv, xi, update) ==
    [j \in 1..Len(wv) |-> IF j = 1 THEN wv[1] + update
                          ELSE wv[j] + update * xi[j - 1]]

\* Only the updates towards +1 are counted.
CountedPositive(update) == IF update > 0 THEN 1 ELSE 0

\* int(update != 0.0)
Counted(update) == IF update # 0 THEN 1 ELSE 0

(* ---------------- fit on a freshly constructed classifier -------------- *)

\* Lines 69-76 from sample i on: the weights and the count after the pass.
RECURSIVE EpochPass(_, _, _, _, _)
EpochPass(wv, A, lab, i, m) ==
    IF i > ZipLen(A, lab) THEN <<wv, m>>
    ELSE LET update == Update(wv, A.data[i], lab[i])
         IN  EpochPass(UpdatedWeights(wv, A.data[i], update), A, lab,
                       i + 1, m + Counted(update))

\* Lines 67-78 from epoch e on.
RECURSIVE Train(_, _, _, _, _)
Train(wv, mis, A, lab, e) ==
    IF e >= n_epoch THEN <<wv, mis>>
    ELSE LET r == EpochPass(wv, A, lab, 1, 0)
         IN  Train(r[1], Append(mis, r[2]), A, lab, e + 1)

\* Lines 63-80 on a classifier that holds eta and n_epoch and nothing else.
FitFresh(A, lab) == Train(rgen_normal(1 + A.shape[2]), <<>>, A, lab, 0)

(* ------------------------------ the state ----------------------------- *)

\* Perceptron.__init__: eta and n_epoch are stored, nothing else is set.
Init ==
    /\ eta \in EtaValues
    /\ n_epoch \in EpochValues
    /\ has_w = FALSE
    /\ w = <<>>
    /\ n_misclass = <<>>
    /\ pc = "idle"
    /\ X = NoArray
    /\ y = <<>>
    /\ epoch = 0
    /\ idx = 0
    /\ misclass = 0
    /\ result = None
    /\ refit = FALSE

(* -------------------------------- fit --------------------------------- *)

\* fit that goes on from the weights it finds when their width fits
\* (a warm start) instead of drawing them afresh.
FitBeginWarm(Xin, yin) ==
    /\ pc = "idle"
    /\ X' = Xin
    /\ y' = yin
    /\ refit' = has_w
    /\ IF Len(Xin.shape) < 2
       THEN /\ pc' = "returned"
            /\ result' = [op |-> "fit", kind |-> "IndexError", value |-> <<>>]
            /\ UNCHANGED <<has_w, w, n_misclass>>
       ELSE /\ has_w' = TRUE
            /\ w' = IF has_w /\ Len(w) = 1 + Xin.shape[2] THEN w
                    ELSE rgen_normal(1 + Xin.shape[2])
            /\ n_misclass' = <<>>
            /\ pc' = "for_epoch"
            /\ UNCHANGED result
    /\ UNCHANGED <<eta, n_epoch, epoch, idx, misclass>>

\* Lines 63-65.  X.shape[1] raises IndexError for an array of one dimension,
\* before anything is assigned; otherwise the weights are drawn afresh and
\* the misclassification list is emptied.
FitBegin(Xin, yin) ==
    /\ pc = "idle"
    /\ X' = Xin
    /\ y' = yin
    /\ refit' = has_w
    /\ IF Len(Xin.shape) < 2
       THEN /\ pc' = "returned"
            /\ result' = [op |-> "fit", kind |-> "IndexError", value |-> <<>>]
            /\ UNCHANGED <<has_w, w, n_misclass>>
       ELSE /\ has_w' = TRUE
            /\ w' = rgen_normal(1 + Xin.shape[2])
            /\ n_misclass' = <<>>
            /\ pc' = "for_epoch"
            /\ UNCHANGED result
    /\ UNCHANGED <<eta, n_epoch, epoch, idx, misclass>>

\* An epoch that goes on counting from the epoch before.
FitEpochBeginNoReset ==
    /\ pc = "for_epoch"
    /\ epoch < n_epoch
    /\ misclass' = misclass
    /\ idx' = 1
    /\ pc' = "for_sample"
    /\ UNCHANGED <<eta, n_epoch, has_w, w, n_misclass, X, y, epoch, result, refit>>

\* Lines 67-69: the next epoch starts with misclass = 0.
FitEpochBegin ==
    /\ pc = "for_epoch"
    /\ epoch < n_epoch
    /\ misclass' = 0
    /\ idx' = 1
    /\ pc' = "for_sample"
    /\ UNCHANGED <<eta, n_epoch, has_w, w, n_misclass, X, y, epoch, result, refit>>

\* Lines 71-76: one pass of the loop over zip(X, y).
FitSample ==
    /\ pc = "for_sample"
    /\ idx <= ZipLen(X, y)
    /\ LET update == Update(w, X.data[idx], y[idx])
       IN  /\ w' = UpdatedWeights(w, X.data[idx], update)
           /\ misclass' = misclass + Counted(update)
    /\ idx' = idx + 1
    /\ UNCHANGED <<eta, n_epoch, has_w, n_misclass, pc, X, y, epoch, result, refit>>

\* Line 78: the epoch's count is appended.
FitEpochEnd ==
    /\ pc = "for_sample"
    /\ idx > ZipLen(X, y)
    /\ n_misclass' = Append(n_misclass, misclass)
    /\ epoch' = epoch + 1
    /\ pc' = "for_epoch"
    /\ UNCHANGED <<eta, n_epoch, has_w, w, X, y, idx, misclass, result, refit>>

\* Line 80: return self.
FitReturn ==
    /\ pc = "for_epoch"
    /\ epoch >= n_epoch
    /\ pc' = "returned"
    /\ result' = [op |-> "fit", kind |-> "ok", value |-> <<>>]
    /\ UNCHANGED <<eta, n_epoch, has_w, w, n_misclass, X, y, epoch, idx, misclass, refit>>

(* ----------------------- net_input and predict ------------------------ *)

NetInputCall(A) ==
    /\ pc = "idle"
    /\ pc' = "returned"
    /\ X' = A
    /\ result' = [op |-> "net_input"] @@ net_input(A)
    /\ UNCHANGED <<eta, n_epoch, has_w, w, n_misclass, y, epoch, idx, misclass, refit>>

PredictCall(A) ==
    /\ pc = "idle"
    /\ pc' = "returned"
    /\ X' = A
    /\ result' = [op |-> "predict"] @@ predict(A)
    /\ UNCHANGED <<eta, n_epoch, has_w, w, n_misclass, y, epoch, idx, misclass, refit>>

(* ------------------------------ the caller ---------------------------- *)

\* The caller takes what the call returned (or the exception it raised) and
\* goes on; the call's arguments and locals are gone.
Resume ==
    /\ pc = "returned"
    /\ pc' = "idle"
    /\ result' = None
    /\ X' = NoArray
    /\ y' = <<>>
    /\ epoch' = 0
    /\ idx' = 0
    /\ misclass' = 0
    /\ refit' = FALSE
    /\ UNCHANGED <<eta, n_epoch, has_w, w, n_misclass>>

Next ==
    \/ \E in \in FitInputs : FitBegin(in[1], in[2])
    \/ FitEpochBegin
    \/ FitSample
    \/ FitEpochEnd
    \/ FitReturn
    \/ \E A \in Samples : NetInputCall(A)
    \/ \E A \in Matrices : NetInputCall(A)
    \/ \E A \in Samples : PredictCall(A)
    \/ \E A \in Matrices : PredictCall(A)
    \/ Resume

Spec == Init /\ [][Next]_vars

(* =============================== claims =============================== *)

\* A call of predict or net_input has returned or raised.
Answered(op) == pc = "returned" /\ result.op = op

\* The width of the rows of array A, and the width the weights were fitted to.
WidthOf(A) == A.shape[Len(A.shape)]

TrainedWidth == Len(w) - 1

\* bias + dot(feature weights, sample), written out.
AffineScore(x) == w[1] + dot(x, SubSeq(w, 2, Len(w)))

\* 1.0 in the unit eta and the weights are counted in.
Unit == 100000

\* A well-formed training set of the documented contract: at least one sample, as
\* many labels as samples, rows of one width, labels in {-1,+1}.
WellFormed(A, lab) ==
    /\ Len(A.shape) = 2
    /\ A.shape[1] >= 1
    /\ Len(lab) = A.shape[1]
    /\ \A i \in 1..Len(lab) : lab[i] \in LabelValues

Malformed(A, lab) == ~WellFormed(A, lab)

\* Some line (plane) with small whole coefficients has every sample of
\* label +1 strictly on one side and every sample of label -1 strictly on
\* the other.
SeparatorCoefficients == -3..3

LinearlySeparable(A, lab) ==
    \E c \in [1..(1 + A.shape[2]) -> SeparatorCoefficients] :
        \A i \in 1..A.shape[1] :
            lab[i] * (c[1] + dot(A.data[i], Tail(c))) > 0

\* The number of epochs within which every separable training set of the
\* model's feature values is learnt.
ConvergenceEpochs == 8

(* ---------------------------------------------------------------------- *)
(* C1: on a trained classifier, predict returns for every sample +1        *)
(* exactly when bias + dot(feature weights, sample) >= 0 and -1 otherwise: *)
(* a net input of exactly 0 gives +1, and nothing but -1 and +1 is ever    *)
(* returned.                                                               *)
(* ---------------------------------------------------------------------- *)
C1_PredictIsInclusiveStep ==
    (Answered("predict") /\ has_w /\ WidthOf(X) = TrainedWidth) =>
        /\ result.kind = "ok"
        /\ Len(result.value) = Len(RowsOf(X))
        /\ \A r \in 1..Len(RowsOf(X)) :
              LET label == result.value[r]
                  score == AffineScore(RowsOf(X)[r])
              IN  /\ label \in {-1, 1}
                  /\ label = 1 <=> score >= 0
                  /\ score = 0 => label = 1

\* predict has answered +1 for a sample whose net input is exactly 0.
C1_Witness ==
    /\ Answered("predict") /\ result.kind = "ok"
    /\ Len(X.shape) = 1
    /\ AffineScore(X.data) = 0
    /\ result.value = <<1>>

(* ---------------------------------------------------------------------- *)
(* C2: when fit returns, the weights and the misclassification list are    *)
(* those a freshly constructed classifier with the same eta and n_epoch    *)
(* gets from the same features and labels, whatever the classifier held    *)
(* before the call.                                                        *)
(* ---------------------------------------------------------------------- *)
C2_FitIgnoresPriorState ==
    (Answered("fit") /\ result.kind = "ok") =>
        <<w, n_misclass>> = FitFresh(X, y)

\* fit has returned on a classifier that held other weights before the
\* call, and this call's training moved the weights off their initial draw.
C2_Witness ==
    /\ Answered("fit") /\ result.kind = "ok"
    /\ refit
    /\ w # rgen_normal(Len(w))
    /\ \E k \in 1..Len(n_misclass) : n_misclass[k] > 0

(* ---------------------------------------------------------------------- *)
(* C7: on a trained classifier, predict and net_input called with samples  *)
(* whose width is not the width the weights were fitted to raise the       *)
(* shape error (numpy's ValueError, from np.dot) and return no label and   *)
(* no score.                                                               *)
(* ---------------------------------------------------------------------- *)
C7_WidthMismatchRaises ==
    ((Answered("predict") \/ Answered("net_input"))
        /\ has_w /\ WidthOf(X) # TrainedWidth) =>
        /\ result.kind = "ValueError"
        /\ result.value = <<>>

\* predict has raised for a sample of another width than the fitted one.
C7_Witness ==
    /\ Answered("predict")
    /\ has_w /\ WidthOf(X) # TrainedWidth
    /\ result.kind = "ValueError"

(* ---------------------------------------------------------------------- *)
(* C8: while the weights are unset, every call of predict and net_input    *)
(* raises (AttributeError: the classifier has no attribute w) and returns  *)
(* nothing; a call that returns a result is a call on a classifier whose   *)
(* weights are set; and the weights go from unset to set only at the       *)
(* start of a fit call, and are never unset again.                         *)
(* ---------------------------------------------------------------------- *)
C8_UntrainedCallsRaise ==
    /\ [] ((Answered("predict") \/ Answered("net_input")) =>
             /\ ~has_w => (result.kind = "AttributeError" /\ result.value = <<>>)
             /\ result.kind = "ok" => has_w)
    /\ [][has_w' # has_w =>
             (~has_w /\ pc = "idle" /\ pc' = "for_epoch" /\ has_w')]_vars

\* net_input has raised on a classifier that was never fitted.
C8_Witness ==
    /\ Answered("net_input")
    /\ ~has_w
    /\ result.kind = "AttributeError"

(* ------------------------- steps of a fit call ------------------------ *)

\* One pass of the loop over zip(X, y) is taken: sample idx is processed.
SampleStep == pc = "for_sample" /\ pc' = "for_sample" /\ idx' = idx + 1

\* An epoch ends: its count is recorded.
EpochEndStep == pc = "for_sample" /\ pc' = "for_epoch"

\* An epoch begins.
EpochBeginStep == pc = "for_epoch" /\ pc' = "for_sample"

InFit == pc \in {"for_epoch", "for_sample"}

\* The label predict gives sample x with the weights as they are now.
PredictedNow(x) == IF AffineScore(x) >= 0 THEN 1 ELSE -1

(* ---------------------------------------------------------------------- *)
(* C3: when fit returns, n_misclass has exactly n_epoch entries; the k-th  *)
(* entry is recorded at the end of the k-th epoch; every entry is a whole  *)
(* number from 0 to the number of samples; and the count recorded for an   *)
(* epoch grows by one exactly at the samples whose processing changed the  *)
(* weights by a non-zero update, starting from 0 at the epoch's start.     *)
(* ---------------------------------------------------------------------- *)
C3_OneCountPerEpoch ==
    /\ [] ((Answered("fit") /\ result.kind = "ok") =>
             /\ Len(n_misclass) = n_epoch
             /\ \A k \in 1..Len(n_misclass) :
                   n_misclass[k] \in 0..X.shape[1])
    /\ [] (InFit => Len(n_misclass) = epoch /\ misclass \in 0..X.shape[1])
    /\ [][EpochBeginStep => misclass' = 0]_vars
    /\ [][SampleStep =>
             misclass' = misclass + (IF w'[1] # w[1] THEN 1 ELSE 0)]_vars
    /\ [][EpochEndStep =>
             /\ n_misclass' = n_misclass \o <<misclass>>
             /\ epoch' = epoch + 1]_vars

\* fit has returned a list of several epochs whose counts differ, the
\* first epoch's being positive.
C3_Witness ==
    /\ Answered("fit") /\ result.kind = "ok"
    /\ Len(n_misclass) = n_epoch /\ n_epoch >= 2
    /\ n_misclass[1] = 2
    /\ n_misclass[2] = 1

(* ---------------------------------------------------------------------- *)
(* C4: within one fit call, once an epoch has recorded the count 0, no     *)
(* later step of the call changes the weights and every later epoch        *)
(* records 0.                                                              *)
(* ---------------------------------------------------------------------- *)
C4_ZeroCountIsAbsorbing ==
    [][(InFit /\ \E k \in 1..Len(n_misclass) : n_misclass[k] = 0) =>
          /\ w' = w
          /\ Len(n_misclass') > Len(n_misclass) =>
                n_misclass'[Len(n_misclass')] = 0]_vars

\* Training took updates in the first epoch, recorded 0 in a later one and
\* went through at least one more epoch after it.
C4_Witness ==
    /\ InFit
    /\ Len(n_misclass) >= 3
    /\ n_misclass[1] > 0
    /\ n_misclass[Len(n_misclass) - 1] = 0
    /\ n_misclass[Len(n_misclass)] = 0

(* ---------------------------------------------------------------------- *)
(* C5: for a linearly separable training set with labels in {-1,+1} and a  *)
(* positive learning rate, a fit of at least ConvergenceEpochs epochs      *)
(* records the count 0 in some epoch, and when it returns predict gives    *)
(* every training sample its true label.                                   *)
(* ---------------------------------------------------------------------- *)
C5_SeparableDataConverges ==
    (Answered("fit") /\ result.kind = "ok"
        /\ eta > 0 /\ n_epoch >= ConvergenceEpochs
        /\ WellFormed(X, y) /\ LinearlySeparable(X, y)) =>
        /\ \E k \in 1..ConvergenceEpochs : n_misclass[k] = 0
        /\ \A i \in 1..X.shape[1] : PredictedNow(X.data[i]) = y[i]

\* A separable set that needed several epochs of updates before its first
\* epoch without any.
C5_Witness ==
    /\ Answered("fit") /\ result.kind = "ok"
    /\ eta > 0 /\ n_epoch >= ConvergenceEpochs
    /\ WellFormed(X, y) /\ LinearlySeparable(X, y)
    /\ n_misclass[3] > 0
    /\ n_misclass[n_epoch] = 0

(* ---------------------------------------------------------------------- *)
(* C6 (as claimed): fit called with an empty feature matrix, with a label  *)
(* vector of another length than the number of samples, with rows of       *)
(* unequal width or with a label outside {-1,+1} raises before training    *)
(* begins and leaves the weights and the misclassification list as they    *)
(* were.                                                                   *)
(* ---------------------------------------------------------------------- *)
C6_MalformedInputIsRejected ==
    [][(pc = "idle" /\ pc' # "idle" /\ Malformed(X', y')
          /\ result'.op \in {"none", "fit"}) =>
          /\ pc' = "returned"
          /\ result'.kind \notin {"ok", "none"}
          /\ UNCHANGED <<has_w, w, n_misclass>>]_vars

(* ---------------------------------------------------------------------- *)
(* C9 (as claimed): for eta from 0.0 to 1.0 and labels in {-1,+1}, the     *)
(* count of an epoch grows by one at a sample exactly when the label       *)
(* predicted for it, with the weights as they are when it is processed,    *)
(* differs from its true label.                                            *)
(* ---------------------------------------------------------------------- *)
C9_CountedIffMisclassified ==
    [][(SampleStep /\ eta \in 0..Unit /\ y[idx] \in {-1, 1}) =>
          (misclass' = misclass + 1 <=> PredictedNow(X.data[idx]) # y[idx])
       ]_vars

(* ---------------------------------------------------------------------- *)
(* C10: in every epoch the samples are taken in the given order, from the  *)
(* first on, each predicted with the weights the sample before it left     *)
(* (the last of the epoch before for the first); its step adds             *)
(* update = eta * (y - predicted) to the bias and update * x[i] to weight  *)
(* i.  A correctly classified sample leaves all weights as they are, a     *)
(* misclassified one with label y in {-1,+1} moves the bias by 2 * eta * y *)
(* and weight i by 2 * eta * y * x[i].                                     *)
(* ---------------------------------------------------------------------- *)
C10_OnlineUpdateRule ==
    /\ [][EpochBeginStep => (idx' = 1 /\ w' = w)]_vars
    /\ [][EpochEndStep => (idx = ZipLen(X, y) + 1 /\ w' = w)]_vars
    /\ [][SampleStep =>
          LET x      == X.data[idx]
              label  == y[idx]
              update == eta * (label - PredictedNow(x))
          IN  /\ idx \in 1..ZipLen(X, y)
              /\ Len(w') = Len(w)
              /\ w'[1] = w[1] + update
              /\ \A i \in 1..Len(x) : w'[i + 1] = w[i + 1] + update * x[i]
              /\ PredictedNow(x) = label => w' = w
              /\ (PredictedNow(x) # label /\ label \in {-1, 1}) =>
                    /\ w'[1] - w[1] = 2 * eta * label
                    /\ \A i \in 1..Len(x) :
                          w'[i + 1] - w[i + 1] = 2 * eta * label * x[i]
         ]_vars

\* The second sample of an epoch is about to be processed, misclassified,
\* with the weights the first sample's update left.
C10_Witness ==
    /\ pc = "for_sample" /\ idx = 2 /\ idx <= ZipLen(X, y)
    /\ misclass = 1
    /\ eta > 0
    /\ y[2] \in {-1, 1}
    /\ PredictedNow(X.data[2]) # y[2]
    /\ X.data[2] # X.data[1]

=============================================================================
